---- MODULE Spec2Model ----
(***************************************************************************)
(* Client-side avatar session of the avatar companion demo: the avatar     *)
(* setup reducer and its asynchronous avatar creation (useAvatarSetup),    *)
(* the photo capture engine (PhotoCapture), and the page that connects the *)
(* room, resets the experience and sequences the transition overlay.       *)
(***************************************************************************)
EXTENDS Integers, Sequences, FiniteSets, TLC

\* ------------------------------------------------------------------ bounds
MaxCaptures == 2   \* capturePhoto calls that reach canvas.toBlob
MaxAttempts == 1   \* invocations of onConnectButtonClicked in flight
MaxResets == 1     \* invocations of handleResetExperience in flight
MaxCamRequests == 1 \* getUserMedia requests in flight
MaxFilterRuns == 2 \* handleFilterSelection calls
MaxEnhance == 2    \* enhance-image requests in flight or answered with an image
MaxInFlight == 2   \* requests of other API clients in flight
MaxStreams == 2    \* getUserMedia requests that are granted

\* ------------------------------------------------------------- value sets
Null == "null"
\* the asset id the avatar service issues for the t-th upload
AssetId(t) == "a" \o ToString(t)
AssetIds == {AssetId(t) : t \in 1..MaxCaptures}
ErrStatus == "Avatar creation failed: status"
ErrNoAssetId == "No asset ID received from avatar creation"
ErrNetwork == "network error"
Steps == {"photo-capture", "creating-avatar", "ready", "skipped"}
\* the blob drawn by the c-th capture (0: the blank canvas), and its object URL
Blob(c) == ToString(c)

\* --------------------------------------------------- avatar setup reducer
initialState ==
  [step |-> "ready", userPhoto |-> Null, assetId |-> Null, error |-> Null]

PhotoCaptured(p) == [type |-> "PHOTO_CAPTURED", payload |-> p]
AvatarCreationStarted == [type |-> "AVATAR_CREATION_STARTED", payload |-> Null]
AvatarCreated(id) == [type |-> "AVATAR_CREATED", payload |-> id]
AvatarCreationFailed(msg) == [type |-> "AVATAR_CREATION_FAILED", payload |-> msg]
PhotoSkipped == [type |-> "PHOTO_SKIPPED", payload |-> Null]
ShowPhotoCaptureAction == [type |-> "SHOW_PHOTO_CAPTURE", payload |-> Null]
ResetAction == [type |-> "RESET", payload |-> Null]

OnPhotoCaptured_ClearsAsset(s, p) ==
  [s EXCEPT !.userPhoto = p, !.step = "creating-avatar", !.error = Null,
            !.assetId = Null]

OnPhotoCaptured(s, p) ==
  [s EXCEPT !.userPhoto = p, !.step = "creating-avatar", !.error = Null]

OnAvatarCreationStarted(s) ==
  [s EXCEPT !.step = "creating-avatar", !.error = Null]

OnAvatarCreated_KeepsError(s, id) ==
  [s EXCEPT !.assetId = id, !.step = "ready"]

OnAvatarCreated(s, id) ==
  [s EXCEPT !.assetId = id, !.step = "ready", !.error = Null]

OnAvatarCreationFailed_KeepsStep(s, msg) ==
  [s EXCEPT !.error = msg]

OnAvatarCreationFailed(s, msg) ==
  [s EXCEPT !.step = "ready", !.error = msg]

OnPhotoSkipped_KeepsStep(s) ==
  [s EXCEPT !.error = Null]

OnPhotoSkipped(s) ==
  [s EXCEPT !.step = "skipped", !.error = Null]

OnShowPhotoCapture(s) ==
  [s EXCEPT !.step = "photo-capture", !.error = Null]

OnReset_KeepsAsset(s) == [initialState EXCEPT !.assetId = s.assetId]

OnReset(s) == initialState

avatarSetupReducer(s, a) ==
  CASE a.type = "PHOTO_CAPTURED" -> OnPhotoCaptured(s, a.payload)
    [] a.type = "AVATAR_CREATION_STARTED" -> OnAvatarCreationStarted(s)
    [] a.type = "AVATAR_CREATED" -> OnAvatarCreated(s, a.payload)
    [] a.type = "AVATAR_CREATION_FAILED" -> OnAvatarCreationFailed(s, a.payload)
    [] a.type = "PHOTO_SKIPPED" -> OnPhotoSkipped(s)
    [] a.type = "SHOW_PHOTO_CAPTURE" -> OnShowPhotoCapture(s)
    [] a.type = "RESET" -> OnReset(s)
    [] OTHER -> s

\* ------------------------------------------------------------------ state
VARIABLES
  state,            \* Page's useAvatarSetup reducer state
  avcState,         \* AvatarVisualControls' own useAvatarSetup reducer state
  hedraAssetId,     \* localStorage entry "hedraAssetId"
  tasks,            \* handlePhotoCapture invocations, in call order
  lastDispatch,     \* reducer actions dispatched to Page's reducer by the last step
  hasUserInteracted,
  isAutoConnecting,
  roomState,        \* room.state
  conns,            \* onConnectButtonClicked invocations in flight, by await
  rpcRegistered,    \* the four RPC methods are registered on the room
  failedSinceUser,  \* a connection attempt failed after the last user action
  resetsDisconnecting, \* handleResetExperience invocations awaiting room.disconnect
  resetsPending,    \* avatarSetup.reset invocations awaiting reset-voice-state
  resetsVoice,      \* handleResetExperience awaiting its reset-voice-state
  resetsClear,      \* handleResetExperience awaiting clear-avatar-state
  resetDoneAt,      \* Len(tasks) when the last reset completed (-1: no reset)
  avatarState,      \* server: global.avatarState
  served,           \* server: the request handled last and its response
  inbox,            \* requests of other API clients on their way to the server
  notify,           \* handlePhotoCapture after createAvatar, by invocation
  pcMounted,        \* a PhotoCapture component instance exists
  isModifyMode,     \* location hash contains "modify"
  cam,              \* PhotoCapture component state
  camPending,       \* getUserMedia requests of the mounted instance in flight
  caps,             \* capturePhoto calls that reached canvas.toBlob
  confirmPending,   \* confirmPhoto canvas.toBlob callbacks not yet run
  acquired,         \* number of streams getUserMedia has handed out
  liveStreams,      \* streams with a track that has not been stopped
  camOrphans,       \* getUserMedia requests of removed instances in flight
  liveUrls,         \* object URLs created and not revoked
  enhPending,       \* enhance-image requests of the mounted instance in flight
  enhOrphans,       \* enhance-image requests of removed instances in flight
  enhanced,         \* number of enhanced images received
  showAlexaTransition,
  showAvatarAppears,
  revealTimers,     \* pending 1000 ms timers of the avatar-ready effect
  hideTimer,        \* pending 500 ms timer of the reveal video's onEnded
  overlayCap,       \* capture that opened the overlay now shown (0: none)
  filtersEnabled,   \* AvatarVisualControls: the filters popover is open
  loadingFilter,    \* AvatarVisualControls: loadingFilter
  filterRuns        \* handleFilterSelection invocations, in call order

vars == <<state, avcState, hedraAssetId, tasks, lastDispatch, hasUserInteracted,
          isAutoConnecting, roomState, conns, rpcRegistered, failedSinceUser,
          resetsDisconnecting, resetsPending, resetsVoice, resetsClear,
          resetDoneAt, avatarState, served, inbox, notify, pcMounted,
          isModifyMode, cam,
          camPending, caps, confirmPending, acquired, liveStreams,
          camOrphans, liveUrls, enhPending, enhOrphans, enhanced,
          showAlexaTransition,
          showAvatarAppears, revealTimers, hideTimer, overlayCap,
          filtersEnabled, loadingFilter, filterRuns>>

\* state of AvatarVisualControls
controlsVars == <<avcState, filtersEnabled, loadingFilter, filterRuns>>
avatarVars == <<state, hedraAssetId, tasks, lastDispatch>>
connVars == <<hasUserInteracted, isAutoConnecting, roomState, conns,
              rpcRegistered, failedSinceUser>>
resetVars == <<resetsDisconnecting, resetsPending, resetsVoice, resetsClear,
               resetDoneAt>>
serverVars == <<avatarState, served, inbox>>
mediaVars == <<acquired, liveStreams, camOrphans, liveUrls>>
enhVars == <<enhPending, enhOrphans, enhanced>>
camVars == <<pcMounted, cam, camPending, caps, confirmPending, mediaVars,
             enhVars>>
overlayVars == <<showAlexaTransition, showAvatarAppears, revealTimers,
                 hideTimer, overlayCap>>

\* -------------------------------------------------- server: avatar state
\* global.avatarState when it is undefined or null
NoAvatarState == [assetId |-> Null, switchVoice |-> Null]

\* JavaScript falsiness of a value taken from a request body
Falsy(v) == v \in {Null, "", "false"}

\* POST /api/set-avatar-id
SetAvatarIdPOST(st, req) ==
  IF ~req.json THEN [state |-> st, status |-> 500]
  ELSE IF Falsy(req.assetId) THEN [state |-> st, status |-> 400]
  ELSE [state |-> [assetId |-> req.assetId,
                   switchVoice |-> IF Falsy(req.switchVoice) THEN "false"
                                   ELSE req.switchVoice],
        status |-> 200]

\* GET /api/avatar-state: the response body is the stored object, or null
AvatarStateGET(st) == [state |-> st, status |-> 200]

ClearAvatarStatePOST_Keeps(st) == [state |-> st, status |-> 200]

\* POST /api/clear-avatar-state
ClearAvatarStatePOST(st) == [state |-> NoAvatarState, status |-> 200]

\* POST /api/reset-voice-state: a body that does not parse is taken as empty
ResetVoiceStatePOST(st, req) == [state |-> NoAvatarState, status |-> 200]

RouteHandler(st, req) ==
  CASE req.op = "set-avatar-id" -> SetAvatarIdPOST(st, req)
    [] req.op = "avatar-state" -> AvatarStateGET(st)
    [] req.op = "clear-avatar-state" -> ClearAvatarStatePOST(st)
    [] req.op = "reset-voice-state" -> ResetVoiceStatePOST(st, req)

Request(op, assetId, switchVoice, json) ==
  [op |-> op, assetId |-> assetId, switchVoice |-> switchVoice, json |-> json]

NoRequest ==
  [req |-> Request("none", Null, Null, TRUE), status |-> 0,
   body |-> NoAvatarState]

\* the server handles one request
Serve(req) ==
  LET r == RouteHandler(avatarState, req) IN
    /\ avatarState' = r.state
    /\ served' = [req |-> req, status |-> r.status,
                  body |-> IF req.op = "avatar-state" THEN r.state
                           ELSE NoAvatarState]

\* a request of the page either reaches the server or is lost on the way
ServeOrLose(req) ==
  \/ Serve(req)
  \/ UNCHANGED <<avatarState, served>>

\* the requests other clients of the API (the agent backend) may send
ApiRequests ==
  {Request("set-avatar-id", a, v, j) :
     a \in {AssetId(1), AssetId(2), "", Null}, v \in {"true", "false", Null},
     j \in {TRUE}}
  \cup {Request("set-avatar-id", Null, Null, FALSE),
        Request("avatar-state", Null, Null, TRUE),
        Request("clear-avatar-state", Null, Null, TRUE),
        Request("reset-voice-state", Null, Null, TRUE),
        Request("reset-voice-state", Null, Null, FALSE)}

ApiRequestSent ==
  /\ Len(inbox) < MaxInFlight
  /\ \E req \in ApiRequests : inbox' = Append(inbox, req)
  /\ lastDispatch' = <<>>
  /\ UNCHANGED <<state, hedraAssetId, tasks, controlsVars, connVars, resetVars,
                 avatarState, served, camVars, isModifyMode, notify, overlayVars>>

\* requests in flight are handled in any order
ApiRequestServed ==
  /\ \E i \in DOMAIN inbox :
       /\ Serve(inbox[i])
       /\ inbox' = SubSeq(inbox, 1, i - 1) \o SubSeq(inbox, i + 1, Len(inbox))
  /\ lastDispatch' = <<>>
  /\ UNCHANGED <<state, hedraAssetId, tasks, controlsVars, connVars, resetVars,
                 camVars, isModifyMode, notify, overlayVars>>

\* handlePhotoCapture has not passed `await createAvatar(photoBlob)`
NotNotified ==
  [pc |-> "waiting", assetId |-> Null, avatarData |-> Null,
   modeSwitch |-> Null]

initialCam ==
  [stream |-> Null, isStreaming |-> FALSE, capturedPhoto |-> Null,
   enhancedPhoto |-> Null, isEnhancing |-> FALSE, currentStep |-> "capture",
   error |-> Null, canvas |-> 0]

Init ==
  /\ state = initialState
  /\ avcState = initialState
  /\ hedraAssetId = Null
  /\ tasks = <<>>
  /\ lastDispatch = <<>>
  /\ hasUserInteracted = FALSE
  /\ isAutoConnecting = FALSE
  /\ roomState = "disconnected"
  /\ conns = [details |-> 0, connect |-> 0, mic |-> 0]
  /\ rpcRegistered = FALSE
  /\ failedSinceUser = FALSE
  /\ resetsDisconnecting = 0
  /\ resetsPending = 0
  /\ resetsVoice = 0
  /\ resetsClear = 0
  /\ resetDoneAt = -1
  /\ avatarState = NoAvatarState
  /\ served = NoRequest
  /\ inbox = <<>>
  /\ notify = [t \in 1..MaxCaptures |-> NotNotified]
  /\ pcMounted = FALSE
  /\ isModifyMode \in BOOLEAN
  /\ cam = initialCam
  /\ camPending = 0
  /\ caps = <<>>
  /\ confirmPending = <<>>
  /\ acquired = 0
  /\ liveStreams = {}
  /\ camOrphans = 0
  /\ liveUrls = {}
  /\ enhPending = 0
  /\ enhOrphans = 0
  /\ enhanced = 0
  /\ showAlexaTransition = FALSE
  /\ showAvatarAppears = FALSE
  /\ revealTimers = 0
  /\ hideTimer = FALSE
  /\ overlayCap = 0
  /\ filtersEnabled = FALSE
  /\ loadingFilter = Null
  /\ filterRuns = <<>>

\* ------------------------------------------------- useAvatarSetup (Page)
\* dispatch: the reducer runs on Page's state
Dispatch(as) ==
  /\ state' = IF Len(as) = 1 THEN avatarSetupReducer(state, as[1])
              ELSE avatarSetupReducer(avatarSetupReducer(state, as[1]), as[2])
  /\ lastDispatch' = as

NoDispatch == state' = state /\ lastDispatch' = <<>>

\* the avatar-ready effect: it runs when one of its dependencies changed and
\* then starts a 1000 ms timer if the overlay waits for an existing asset id
AvatarReadyEffect(show, asset, appears) ==
  IF /\ <<show, asset, appears>> #
          <<showAlexaTransition, state.assetId, showAvatarAppears>>
     /\ show /\ asset # Null /\ ~appears
    THEN revealTimers + 1
    ELSE revealTimers

\* handlePhotoCapture up to createAvatar's first await: PHOTO_CAPTURED, then
\* AVATAR_CREATION_STARTED, then the create-avatar request is issued
HandlePhotoCapture(c, photo) ==
  /\ Dispatch(<<PhotoCaptured(photo), AvatarCreationStarted>>)
  /\ tasks' = Append(tasks, [pc |-> "create", cap |-> c, result |-> "pending"])
  /\ hedraAssetId' = hedraAssetId

\* createAvatar's catch block
CreateAvatarCatch(t, msg) ==
  /\ tasks' = [tasks EXCEPT ![t].pc = "done", ![t].result = "failed"]
  /\ Dispatch(<<AvatarCreationFailed(msg)>>)

\* createAvatar: the create-avatar request is answered with an asset id; the
\* id is stored in local storage and the set-avatar-id request is issued
CreateAvatarResponded(t) ==
  /\ tasks[t].pc = "create"
  /\ hedraAssetId' = AssetId(t)
  /\ tasks' = [tasks EXCEPT ![t].pc = "setid"]
  /\ NoDispatch
  /\ UNCHANGED <<controlsVars, connVars, resetVars, serverVars, camVars, isModifyMode, notify,
                 overlayVars>>

\* createAvatar: the create-avatar request rejects, or is answered with an
\* error status or without an asset id
CreateAvatarFailed(t) ==
  /\ tasks[t].pc = "create"
  /\ \E msg \in {ErrNetwork, ErrStatus, ErrNoAssetId} : CreateAvatarCatch(t, msg)
  /\ UNCHANGED <<controlsVars, hedraAssetId, connVars, resetVars, serverVars, camVars,
                 isModifyMode, notify, overlayVars>>

\* the body createAvatar posts to /api/set-avatar-id
SetAvatarIdBody(t) == Request("set-avatar-id", AssetId(t), "true", TRUE)

\* createAvatar: the set-avatar-id request was handled and its response
\* (of any status) arrives
SetAvatarIdResolved(t) ==
  /\ tasks[t].pc = "setid"
  /\ Serve(SetAvatarIdBody(t))
  /\ tasks' = [tasks EXCEPT ![t].pc = "done", ![t].result = "created"]
  /\ Dispatch(<<AvatarCreated(AssetId(t))>>)
  /\ revealTimers' =
       AvatarReadyEffect(showAlexaTransition, state'.assetId, showAvatarAppears)
  /\ UNCHANGED <<controlsVars, hedraAssetId, connVars, resetVars, inbox, camVars,
                 isModifyMode, notify, showAlexaTransition, showAvatarAppears,
                 hideTimer, overlayCap>>

SetAvatarIdRejected_RollsBack(t) ==
  /\ tasks[t].pc = "setid"
  /\ ServeOrLose(SetAvatarIdBody(t))
  /\ CreateAvatarCatch(t, ErrNetwork)
  /\ hedraAssetId' = Null
  /\ UNCHANGED <<controlsVars, connVars, resetVars, inbox, camVars,
                 isModifyMode, notify, overlayVars>>

\* createAvatar: the set-avatar-id request rejects, before or after the
\* server handled it
SetAvatarIdRejected(t) ==
  /\ tasks[t].pc = "setid"
  /\ ServeOrLose(SetAvatarIdBody(t))
  /\ CreateAvatarCatch(t, ErrNetwork)
  /\ UNCHANGED <<controlsVars, hedraAssetId, connVars, resetVars, inbox,
                 camVars, isModifyMode, notify, overlayVars>>

\* handleSkipPhoto, from the skipPhoto RPC or a skip_photo control message
HandleSkipPhoto ==
  /\ roomState = "connected"
  /\ Dispatch(<<PhotoSkipped>>)
  /\ UNCHANGED <<controlsVars, hedraAssetId, tasks, connVars, resetVars, serverVars,
                 camVars, isModifyMode, notify, overlayVars>>

\* showPhotoCaptureAction, from a show_photo_capture control message
ShowPhotoCapture ==
  /\ roomState = "connected"
  /\ Dispatch(<<ShowPhotoCaptureAction>>)
  /\ UNCHANGED <<controlsVars, hedraAssetId, tasks, connVars, resetVars, serverVars,
                 camVars, isModifyMode, notify, overlayVars>>

\* ------------------------------------------------------------- reset
\* handleResetExperience invocations that have not returned, with the
\* avatarSetup.reset calls they started
ResetsInFlight ==
  resetsDisconnecting + resetsPending + resetsVoice + resetsClear

\* the step leaves no part of a reset in flight: the reset has completed
ResetCompletes(inFlight) ==
  resetDoneAt' = IF inFlight = 0 THEN Len(tasks) ELSE resetDoneAt

\* handleResetExperience after its optional `await room.disconnect()`: the
\* page states are reset, avatarSetup.reset() is started (not awaited), the
\* local storage entry is removed and reset-voice-state is requested
ResetSyncBlock ==
  /\ hasUserInteracted' = FALSE
  /\ isAutoConnecting' = FALSE
  /\ failedSinceUser' = FALSE
  /\ resetsPending' = resetsPending + 1
  /\ resetsVoice' = resetsVoice + 1
  /\ hedraAssetId' = Null

\* handleResetExperience, from the reset button of SimpleVoiceAssistant
HandleResetExperience ==
  /\ hasUserInteracted
  /\ roomState # "disconnected"
  /\ ResetsInFlight < MaxResets
  /\ IF roomState = "connected"
       THEN /\ resetsDisconnecting' = resetsDisconnecting + 1
            /\ UNCHANGED <<hasUserInteracted, isAutoConnecting,
                           failedSinceUser, resetsPending, resetsVoice,
                           hedraAssetId>>
       ELSE /\ ResetSyncBlock
            /\ resetsDisconnecting' = resetsDisconnecting
  /\ NoDispatch
  /\ UNCHANGED <<controlsVars, tasks, roomState, conns, rpcRegistered,
                 resetsClear, resetDoneAt, serverVars, camVars, isModifyMode, notify,
                 overlayVars>>

\* handleResetExperience: room.disconnect() has completed
ResetDisconnected ==
  /\ resetsDisconnecting > 0
  /\ resetsDisconnecting' = resetsDisconnecting - 1
  /\ roomState' = "disconnected"
  /\ ResetSyncBlock
  /\ NoDispatch
  /\ UNCHANGED <<controlsVars, tasks, conns, rpcRegistered, resetsClear,
                 resetDoneAt, serverVars, camVars, isModifyMode, notify, overlayVars>>

\* avatarSetup.reset after its reset-voice-state request settled (a failure
\* is caught): localStorage.removeItem, then RESET is dispatched
ResetVoiceStateSettled ==
  /\ resetsPending > 0
  /\ resetsPending' = resetsPending - 1
  /\ ServeOrLose(Request("reset-voice-state", Null, Null, TRUE))
  /\ hedraAssetId' = Null
  /\ Dispatch(<<ResetAction>>)
  /\ ResetCompletes(ResetsInFlight - 1)
  /\ UNCHANGED <<controlsVars, tasks, connVars, resetsDisconnecting,
                 resetsVoice, resetsClear, inbox, camVars, isModifyMode, notify,
                 overlayVars>>

\* handleResetExperience: its own reset-voice-state request (sent without a
\* body) settled; clear-avatar-state is requested
ResetPageVoiceSettled ==
  /\ resetsVoice > 0
  /\ resetsVoice' = resetsVoice - 1
  /\ resetsClear' = resetsClear + 1
  /\ ServeOrLose(Request("reset-voice-state", Null, Null, FALSE))
  /\ NoDispatch
  /\ UNCHANGED <<controlsVars, hedraAssetId, tasks, connVars,
                 resetsDisconnecting, resetsPending, resetDoneAt, inbox,
                 camVars, isModifyMode, notify, overlayVars>>

\* handleResetExperience: the clear-avatar-state request settled and the
\* handler returns
ResetClearSettled ==
  /\ resetsClear > 0
  /\ resetsClear' = resetsClear - 1
  /\ ServeOrLose(Request("clear-avatar-state", Null, Null, TRUE))
  /\ ResetCompletes(ResetsInFlight - 1)
  /\ NoDispatch
  /\ UNCHANGED <<controlsVars, hedraAssetId, tasks, connVars,
                 resetsDisconnecting, resetsPending, resetsVoice, inbox,
                 camVars, isModifyMode, notify, overlayVars>>

\* ------------------------------------------------------------ connection
ConnsInFlight == conns.details + conns.connect + conns.mic

\* handleStartExperience, from the Start button
HandleStartExperience ==
  /\ ~hasUserInteracted
  /\ hasUserInteracted' = TRUE
  /\ failedSinceUser' = FALSE
  /\ NoDispatch
  /\ UNCHANGED <<controlsVars, hedraAssetId, tasks, isAutoConnecting,
                 roomState, conns, rpcRegistered, resetVars, serverVars, camVars,
                 isModifyMode, notify, overlayVars>>

\* onConnectButtonClicked up to its first await
onConnectButtonClicked ==
  /\ isAutoConnecting' = TRUE
  /\ conns' = [conns EXCEPT !.details = @ + 1]

\* the auto-start effect
AutoStartEffect ==
  /\ hasUserInteracted
  /\ roomState = "disconnected"
  /\ ~isAutoConnecting
  /\ ConnsInFlight < MaxAttempts
  /\ onConnectButtonClicked
  /\ NoDispatch
  /\ UNCHANGED <<controlsVars, hedraAssetId, tasks, hasUserInteracted,
                 roomState, rpcRegistered, failedSinceUser, resetVars, serverVars, camVars,
                 isModifyMode, notify, overlayVars>>

\* onConnectButtonClicked's catch block
ConnectCatch == isAutoConnecting' = FALSE

\* onConnectButtonClicked: connection details arrived, room.connect is called
ConnectionDetailsFetched ==
  /\ conns.details > 0
  /\ conns' = [conns EXCEPT !.details = @ - 1, !.connect = @ + 1]
  /\ roomState' = IF roomState = "disconnected" THEN "connecting" ELSE roomState
  /\ NoDispatch
  /\ UNCHANGED <<controlsVars, hedraAssetId, tasks, hasUserInteracted,
                 isAutoConnecting, rpcRegistered, failedSinceUser, resetVars, serverVars,
                 camVars, isModifyMode, notify, overlayVars>>

\* onConnectButtonClicked: the connection-details request throws
ConnectionDetailsFailed ==
  /\ conns.details > 0
  /\ conns' = [conns EXCEPT !.details = @ - 1]
  /\ ConnectCatch
  /\ failedSinceUser' = TRUE
  /\ NoDispatch
  /\ UNCHANGED <<controlsVars, hedraAssetId, tasks, hasUserInteracted,
                 roomState, rpcRegistered, resetVars, serverVars, camVars, isModifyMode, notify,
                 overlayVars>>

\* onConnectButtonClicked: room.connect resolved
RoomConnected ==
  /\ conns.connect > 0
  /\ conns' = [conns EXCEPT !.connect = @ - 1, !.mic = @ + 1]
  /\ roomState' = "connected"
  /\ NoDispatch
  /\ UNCHANGED <<controlsVars, hedraAssetId, tasks, hasUserInteracted,
                 isAutoConnecting, rpcRegistered, failedSinceUser, resetVars, serverVars,
                 camVars, isModifyMode, notify, overlayVars>>

\* onConnectButtonClicked: room.connect throws
RoomConnectFailed ==
  /\ conns.connect > 0
  /\ conns' = [conns EXCEPT !.connect = @ - 1]
  /\ roomState' = "disconnected"
  /\ ConnectCatch
  /\ failedSinceUser' = TRUE
  /\ NoDispatch
  /\ UNCHANGED <<controlsVars, hedraAssetId, tasks, hasUserInteracted,
                 rpcRegistered, resetVars, serverVars, camVars, isModifyMode, notify, overlayVars>>

\* onConnectButtonClicked: the microphone is enabled, the RPC methods are
\* registered
RpcMethodsRegistered ==
  /\ conns.mic > 0
  /\ conns' = [conns EXCEPT !.mic = @ - 1]
  /\ rpcRegistered' = TRUE
  /\ NoDispatch
  /\ UNCHANGED <<controlsVars, hedraAssetId, tasks, hasUserInteracted,
                 isAutoConnecting, roomState, failedSinceUser, resetVars, serverVars,
                 camVars, isModifyMode, notify, overlayVars>>

\* onConnectButtonClicked: setMicrophoneEnabled throws
MicrophoneFailed ==
  /\ conns.mic > 0
  /\ conns' = [conns EXCEPT !.mic = @ - 1]
  /\ ConnectCatch
  /\ NoDispatch
  /\ UNCHANGED <<controlsVars, hedraAssetId, tasks, hasUserInteracted,
                 roomState, rpcRegistered, failedSinceUser, resetVars, serverVars, camVars,
                 isModifyMode, notify, overlayVars>>

\* --------------------------------------------------------- PhotoCapture
CameraError == "Failed to access camera. Please ensure camera permissions are granted."

\* the k-th MediaStream that getUserMedia hands out
StreamId(k) == "s" \o ToString(k)

\* Page renders <PhotoCapture> under this condition
PhotoCaptureShown ==
  hasUserInteracted /\ (state.assetId = Null \/ state.step = "photo-capture")

\* PhotoCapture renders the <video> element (videoRef.current is set)
VideoMounted ==
  /\ pcMounted
  /\ ~(cam.currentStep = "confirm" /\ cam.enhancedPhoto # Null)
  /\ cam.capturedPhoto = Null
  /\ cam.isStreaming

\* stopCamera of the render that closed over `stream`
stopCamera(c, stream) ==
  IF stream # Null THEN [c EXCEPT !.stream = Null, !.isStreaming = FALSE] ELSE c

\* the dependencies of the cleanup effect: stopCamera changes with stream
EffectDeps(c) == <<c.stream, c.capturedPhoto, c.enhancedPhoto>>

\* the effect's cleanup as registered by the render of c: the tracks it stops
\* and the object URLs it revokes
CleanupStops(c) == {c.stream} \ {Null}
CleanupRevokes_None(c) == {}
CleanupRevokes(c) == {c.capturedPhoto, c.enhancedPhoto} \ {Null}

\* the render of n replaces the effect of o, whose cleanup calls stopCamera
\* and so renders again, which replaces the effect of n
CleanupAgain(o, n) ==
  EffectDeps(o) # EffectDeps(n) /\ o.stream # Null /\ n.stream # Null

\* component state once the renders that follow state n have settled
Settle(o, n) ==
  IF EffectDeps(o) # EffectDeps(n) THEN stopCamera(n, o.stream) ELSE n

StoppedBy(o, n) ==
  IF EffectDeps(o) # EffectDeps(n)
    THEN CleanupStops(o) \cup (IF CleanupAgain(o, n) THEN CleanupStops(n) ELSE {})
    ELSE {}

RevokedBy(o, n) ==
  IF EffectDeps(o) # EffectDeps(n)
    THEN CleanupRevokes(o) \cup
           (IF CleanupAgain(o, n) THEN CleanupRevokes(n) ELSE {})
    ELSE {}

\* a handler of the mounted instance set the component state to n, acquired
\* and stopped streams and created object URLs; the component renders
CommitCam(n, got, stopped, created) ==
  /\ cam' = Settle(cam, n)
  /\ liveStreams' = ((liveStreams \cup got) \ stopped) \ StoppedBy(cam, n)
  /\ liveUrls' = (liveUrls \cup created) \ RevokedBy(cam, n)

MountPhotoCapture ==
  /\ PhotoCaptureShown
  /\ ~pcMounted
  /\ pcMounted' = TRUE
  /\ cam' = initialCam
  /\ NoDispatch
  /\ UNCHANGED <<controlsVars, hedraAssetId, tasks, connVars, resetVars, serverVars,
                 camPending, caps, confirmPending, enhVars, mediaVars,
                 isModifyMode, notify, overlayVars>>

\* the component is removed: the cleanup effect runs, callbacks of the removed
\* instance no longer reach component state
UnmountPhotoCapture ==
  /\ ~PhotoCaptureShown
  /\ pcMounted
  /\ pcMounted' = FALSE
  /\ cam' = initialCam
  /\ liveStreams' = liveStreams \ CleanupStops(cam)
  /\ liveUrls' = liveUrls \ CleanupRevokes(cam)
  /\ camPending' = 0
  /\ camOrphans' = camOrphans + camPending
  /\ enhPending' = 0
  /\ enhOrphans' = enhOrphans + enhPending
  /\ caps' = [c \in DOMAIN caps |->
                IF caps[c].status = "pending"
                  THEN [caps[c] EXCEPT !.status = "orphan"] ELSE caps[c]]
  /\ NoDispatch
  /\ UNCHANGED <<controlsVars, hedraAssetId, tasks, connVars, resetVars, serverVars,
                 confirmPending, acquired, enhanced, isModifyMode, notify,
                 overlayVars>>

\* startCamera up to `await getUserMedia`
StartCameraCall(n) ==
  /\ acquired + camPending + camOrphans < MaxStreams
  /\ camPending < MaxCamRequests
  /\ CommitCam([n EXCEPT !.error = Null], {}, {}, {})
  /\ camPending' = camPending + 1

\* startCamera, called by the Start Camera buttons, the startCamera RPC or a
\* start_camera control message
StartCamera ==
  /\ pcMounted
  /\ \/ hasUserInteracted /\ ~cam.isStreaming /\ cam.capturedPhoto = Null
     \/ roomState = "connected"
  /\ StartCameraCall(cam)
  /\ NoDispatch
  /\ UNCHANGED <<controlsVars, hedraAssetId, tasks, connVars, resetVars, serverVars,
                 pcMounted, caps, confirmPending, enhVars, acquired, camOrphans,
                 isModifyMode, notify, overlayVars>>

\* startCamera: getUserMedia resolved
CameraGranted ==
  /\ camPending > 0
  /\ camPending' = camPending - 1
  /\ acquired' = acquired + 1
  /\ CommitCam([cam EXCEPT !.stream = StreamId(acquired + 1),
                           !.isStreaming = TRUE],
               {StreamId(acquired + 1)}, {}, {})
  /\ NoDispatch
  /\ UNCHANGED <<controlsVars, hedraAssetId, tasks, connVars, resetVars, serverVars,
                 pcMounted, caps, confirmPending, enhVars, camOrphans,
                 isModifyMode, notify, overlayVars>>

CameraDenied_Silent ==
  /\ camPending > 0
  /\ camPending' = camPending - 1
  /\ NoDispatch
  /\ UNCHANGED <<controlsVars, hedraAssetId, tasks, connVars, resetVars, serverVars,
                 pcMounted, cam, caps, confirmPending, enhVars, mediaVars,
                 isModifyMode, notify, overlayVars>>

\* startCamera: getUserMedia rejected
CameraDenied ==
  /\ camPending > 0
  /\ camPending' = camPending - 1
  /\ CommitCam([cam EXCEPT !.error = CameraError], {}, {}, {})
  /\ NoDispatch
  /\ UNCHANGED <<controlsVars, hedraAssetId, tasks, connVars, resetVars, serverVars,
                 pcMounted, caps, confirmPending, enhVars, acquired, camOrphans,
                 isModifyMode, notify, overlayVars>>

\* getUserMedia of a removed instance settles: a granted stream is set on the
\* removed component and nothing stops its tracks
OrphanCameraSettled ==
  /\ camOrphans > 0
  /\ camOrphans' = camOrphans - 1
  /\ \/ /\ acquired' = acquired + 1
        /\ liveStreams' = liveStreams \cup {StreamId(acquired + 1)}
     \/ UNCHANGED <<acquired, liveStreams>>
  /\ NoDispatch
  /\ UNCHANGED <<controlsVars, hedraAssetId, tasks, connVars, resetVars, serverVars,
                 pcMounted, cam, camPending, caps, confirmPending, enhVars,
                 liveUrls, isModifyMode, notify, overlayVars>>

\* a capture of the mounted instance whose toBlob callback has not run (0: none)
PendingCap ==
  IF \E c \in DOMAIN caps : caps[c].status = "pending"
    THEN CHOOSE c \in DOMAIN caps : caps[c].status = "pending" /\
           \A d \in DOMAIN caps : caps[d].status = "pending" => d <= c
    ELSE 0

\* capturePhoto passes its guards: the frame is drawn and toBlob is called
CaptureReachesToBlob == VideoMounted

\* capturePhoto: returns early without a <video>, else draws the frame and
\* leaves a toBlob callback pending
capturePhoto ==
  IF CaptureReachesToBlob
    THEN /\ Len(caps) < MaxCaptures
         /\ caps' = Append(caps, [status |-> "pending", during |-> PendingCap,
                                  stream |-> cam.stream])
         /\ cam' = [cam EXCEPT !.canvas = Len(caps) + 1]
    ELSE UNCHANGED <<caps, cam>>

\* setShowAlexaTransition(true) after a capturePhoto call
OpenOverlay ==
  /\ showAlexaTransition' = TRUE
  /\ overlayCap' = IF showAlexaTransition THEN overlayCap
                   ELSE IF CaptureReachesToBlob THEN Len(caps) + 1 ELSE 0
  /\ revealTimers' = AvatarReadyEffect(TRUE, state.assetId, showAvatarAppears)
  /\ UNCHANGED <<showAvatarAppears, hideTimer>>

\* the capturePhoto RPC handler
RpcCapturePhoto ==
  /\ roomState = "connected"
  /\ rpcRegistered
  /\ pcMounted
  /\ capturePhoto
  /\ OpenOverlay
  /\ NoDispatch
  /\ UNCHANGED <<controlsVars, hedraAssetId, tasks, connVars, resetVars, serverVars,
                 pcMounted, camPending, confirmPending, enhVars, mediaVars,
                 isModifyMode, notify>>

\* the answer of the isCameraActive RPC handler: "true" when the ref of
\* PhotoCapture exposes startCamera, which it does while the component is
\* mounted
isCameraActive == IF pcMounted THEN "true" ELSE "false"

\* handleCapturePhoto of PhotoCaptureControls (Take Photo button)
HandleCapturePhoto ==
  /\ hasUserInteracted
  /\ roomState # "disconnected"
  /\ pcMounted
  /\ cam.isStreaming
  /\ capturePhoto
  /\ OpenOverlay
  /\ NoDispatch
  /\ UNCHANGED <<controlsVars, hedraAssetId, tasks, connVars, resetVars, serverVars,
                 pcMounted, camPending, confirmPending, enhVars, mediaVars,
                 isModifyMode, notify>>

\* a capture_photo control message, or PhotoCapture's own Capture Photo button
CapturePhotoPlain ==
  /\ pcMounted
  /\ \/ roomState = "connected"
     \/ hasUserInteracted /\ cam.isStreaming
  /\ CaptureReachesToBlob
  /\ capturePhoto
  /\ NoDispatch
  /\ UNCHANGED <<controlsVars, hedraAssetId, tasks, connVars, resetVars, serverVars,
                 pcMounted, camPending, confirmPending, enhVars, mediaVars,
                 isModifyMode, notify, overlayVars>>

\* capturePhoto's toBlob callback, with a null or a non-null blob; capturePhoto
\* ran in a render that showed the <video>, so its stopCamera holds the stream
BlobCallback(c) ==
  /\ caps[c].status \in {"pending", "orphan"}
  /\ \/ /\ caps' = [caps EXCEPT ![c].status = "null"]
        /\ NoDispatch
        /\ UNCHANGED <<cam, liveStreams, liveUrls, tasks, hedraAssetId>>
     \/ /\ IF caps[c].status = "pending"
             THEN CommitCam([stopCamera(cam, caps[c].stream) EXCEPT
                               !.capturedPhoto = Blob(c)],
                            {}, {caps[c].stream}, {Blob(c)})
             ELSE /\ cam' = cam
                  /\ liveStreams' = liveStreams \ {caps[c].stream}
                  /\ liveUrls' = liveUrls \cup {Blob(c)}
        /\ IF isModifyMode
             THEN /\ caps' = [caps EXCEPT ![c].status = "dropped"]
                  /\ NoDispatch
                  /\ UNCHANGED <<tasks, hedraAssetId>>
             ELSE /\ caps' = [caps EXCEPT ![c].status = "emitted"]
                  /\ HandlePhotoCapture(c, Blob(c))
  /\ UNCHANGED <<controlsVars, connVars, resetVars, serverVars, pcMounted, camPending,
                 confirmPending, enhVars, acquired, camOrphans, isModifyMode, notify,
                 overlayVars>>

\* retakePhoto (Retake buttons, modify mode), which calls startCamera
retakePhoto ==
  /\ pcMounted
  /\ isModifyMode
  /\ \/ cam.capturedPhoto # Null /\ cam.currentStep = "capture"
     \/ cam.currentStep = "confirm"
  /\ StartCameraCall([cam EXCEPT !.capturedPhoto = Null, !.enhancedPhoto = Null,
                                 !.currentStep = "capture"])
  /\ NoDispatch
  /\ UNCHANGED <<controlsVars, hedraAssetId, tasks, connVars, resetVars, serverVars,
                 pcMounted, caps, confirmPending, enhVars, acquired, camOrphans,
                 isModifyMode, notify, overlayVars>>

\* useOriginalPhoto (Use Original button, modify mode)
useOriginalPhoto ==
  /\ pcMounted
  /\ isModifyMode
  /\ cam.capturedPhoto # Null
  /\ cam.currentStep = "capture"
  /\ cam' = [cam EXCEPT !.currentStep = "confirm"]
  /\ NoDispatch
  /\ UNCHANGED <<controlsVars, hedraAssetId, tasks, connVars, resetVars, serverVars,
                 pcMounted, camPending, caps, confirmPending, enhVars,
                 mediaVars, isModifyMode, notify, overlayVars>>

EnhanceError == "Failed to enhance image. Using original photo instead."

\* the k-th object URL that enhancePhoto creates
EnhancedId(k) == "e" \o ToString(k)

\* enhancePhoto (Enhance button, modify mode) up to the enhance-image request;
\* with a canvas that yields no blob the promise it awaits never resolves
enhancePhoto ==
  /\ pcMounted
  /\ isModifyMode
  /\ cam.capturedPhoto # Null
  /\ cam.currentStep = "capture"
  /\ ~cam.isEnhancing
  /\ enhanced + enhPending + enhOrphans < MaxEnhance
  /\ CommitCam([cam EXCEPT !.isEnhancing = TRUE, !.error = Null], {}, {}, {})
  /\ enhPending' = IF caps[cam.canvas].status = "null" THEN enhPending
                   ELSE enhPending + 1
  /\ NoDispatch
  /\ UNCHANGED <<controlsVars, hedraAssetId, tasks, connVars, resetVars, serverVars,
                 pcMounted, camPending, caps, confirmPending, acquired,
                 camOrphans, enhOrphans, enhanced, isModifyMode, notify, overlayVars>>

\* enhancePhoto: the request is answered with an enhanced image
EnhanceSucceeded ==
  /\ enhPending > 0
  /\ enhPending' = enhPending - 1
  /\ enhanced' = enhanced + 1
  /\ CommitCam([cam EXCEPT !.enhancedPhoto = EnhancedId(enhanced + 1),
                           !.currentStep = "confirm", !.isEnhancing = FALSE],
               {}, {}, {EnhancedId(enhanced + 1)})
  /\ NoDispatch
  /\ UNCHANGED <<controlsVars, hedraAssetId, tasks, connVars, resetVars, serverVars,
                 pcMounted, camPending, caps, confirmPending, acquired,
                 camOrphans, enhOrphans, isModifyMode, notify, overlayVars>>

EnhanceFailed_StaysInCapture ==
  /\ enhPending > 0
  /\ enhPending' = enhPending - 1
  /\ CommitCam([cam EXCEPT !.error = EnhanceError, !.isEnhancing = FALSE],
               {}, {}, {})
  /\ NoDispatch
  /\ UNCHANGED <<controlsVars, hedraAssetId, tasks, connVars, resetVars, serverVars,
                 pcMounted, camPending, caps, confirmPending, acquired,
                 camOrphans, enhOrphans, enhanced, isModifyMode, notify, overlayVars>>

\* enhancePhoto: the request rejects, or is answered with a non-OK status or
\* without an image; the catch and finally blocks run
EnhanceFailed ==
  /\ enhPending > 0
  /\ enhPending' = enhPending - 1
  /\ CommitCam([cam EXCEPT !.error = EnhanceError, !.currentStep = "confirm",
                           !.isEnhancing = FALSE],
               {}, {}, {})
  /\ NoDispatch
  /\ UNCHANGED <<controlsVars, hedraAssetId, tasks, connVars, resetVars, serverVars,
                 pcMounted, camPending, caps, confirmPending, acquired,
                 camOrphans, enhOrphans, enhanced, isModifyMode, notify, overlayVars>>

\* an enhance-image request of a removed instance settles: the object URL of
\* an enhanced image is set on the removed component and nothing revokes it
OrphanEnhanceSettled ==
  /\ enhOrphans > 0
  /\ enhOrphans' = enhOrphans - 1
  /\ \/ /\ enhanced' = enhanced + 1
        /\ liveUrls' = liveUrls \cup {EnhancedId(enhanced + 1)}
     \/ UNCHANGED <<enhanced, liveUrls>>
  /\ NoDispatch
  /\ UNCHANGED <<controlsVars, hedraAssetId, tasks, connVars, resetVars, serverVars,
                 pcMounted, cam, camPending, caps, confirmPending, acquired,
                 liveStreams, camOrphans, enhPending, isModifyMode, notify,
                 overlayVars>>

\* the image confirmPhoto hands to onPhotoCapture: the enhanced image if its
\* object URL can be fetched, else the canvas
PhotoToUse ==
  IF cam.enhancedPhoto # Null /\ cam.enhancedPhoto \in liveUrls
    THEN cam.enhancedPhoto
    ELSE Blob(cam.canvas)

\* confirmPhoto (Use This Photo button, modify mode): the enhanced photo is
\* fetched or canvas.toBlob is called
confirmPhoto ==
  /\ pcMounted
  /\ isModifyMode
  /\ cam.currentStep = "confirm"
  /\ Len(tasks) + Len(confirmPending) < MaxCaptures
  /\ confirmPending' =
       Append(confirmPending, [cap |-> cam.canvas, photo |-> PhotoToUse])
  /\ NoDispatch
  /\ UNCHANGED <<controlsVars, hedraAssetId, tasks, connVars, resetVars, serverVars,
                 pcMounted, cam, camPending, caps, mediaVars, enhVars,
                 isModifyMode, notify, overlayVars>>

\* confirmPhoto's fetch or toBlob callback; a null blob is not passed on
ConfirmBlobCallback ==
  /\ confirmPending # <<>>
  /\ confirmPending' = Tail(confirmPending)
  /\ LET e == Head(confirmPending) IN
       IF e.photo = Blob(e.cap) /\ caps[e.cap].status = "null"
         THEN NoDispatch /\ UNCHANGED <<tasks, hedraAssetId>>
         ELSE HandlePhotoCapture(e.cap, e.photo)
  /\ UNCHANGED <<controlsVars, connVars, resetVars, serverVars, pcMounted, cam, camPending,
                 caps, mediaVars, enhVars, isModifyMode, notify, overlayVars>>

\* --------------------------------------------------- transition overlay
\* the effect's 1000 ms timer
RevealTimerFires ==
  /\ revealTimers > 0
  /\ revealTimers' = revealTimers - 1
  /\ showAvatarAppears' = TRUE
  /\ NoDispatch
  /\ UNCHANGED <<controlsVars, hedraAssetId, tasks, connVars, resetVars, serverVars,
                 camVars, isModifyMode, notify, showAlexaTransition, hideTimer,
                 overlayCap>>

\* onEnded of the reveal video
RevealVideoEnded ==
  /\ hasUserInteracted
  /\ showAlexaTransition
  /\ showAvatarAppears
  /\ ~hideTimer
  /\ hideTimer' = TRUE
  /\ NoDispatch
  /\ UNCHANGED <<controlsVars, hedraAssetId, tasks, connVars, resetVars, serverVars,
                 camVars, isModifyMode, notify, showAlexaTransition, showAvatarAppears,
                 revealTimers, overlayCap>>

\* onEnded's 500 ms timer; the reveal video outlasts the 1000 ms timers that
\* were started before it began
HideTimerFires ==
  /\ hideTimer
  /\ revealTimers = 0
  /\ hideTimer' = FALSE
  /\ showAlexaTransition' = FALSE
  /\ showAvatarAppears' = FALSE
  /\ overlayCap' = 0
  /\ NoDispatch
  /\ UNCHANGED <<controlsVars, hedraAssetId, tasks, connVars, resetVars, serverVars,
                 camVars, isModifyMode, notify, revealTimers>>

\* ------------------------------------------------------------ useRoomData
\* window.liveKitRoom is set by onConnectButtonClicked before the RPC methods
RoomAvailable == rpcRegistered

\* publishData up to `await room.localParticipant.publishData`, or its return
\* without a room
PublishCall ==
  IF RoomAvailable
    THEN [pc |-> "publishing", attempts |-> 1, outcome |-> Null, ret |-> Null]
    ELSE [pc |-> "returned", attempts |-> 0, outcome |-> "noroom", ret |-> "false"]

PublishCatch_Rethrows(call) ==
  [call EXCEPT !.pc = "thrown", !.outcome = "rejected"]

\* publishData's catch block
PublishCatch(call) ==
  [call EXCEPT !.pc = "returned", !.outcome = "rejected", !.ret = "false"]

\* publishData: the publish resolved
PublishResolved(call) ==
  [call EXCEPT !.pc = "returned", !.outcome = "ok", !.ret = "true"]

\* the avatarId of a mode_switch message sent with `assetId || undefined`
Undefined == "undefined"

\* what publishData puts on the room for a message carrying id: the message
\* is published when the room is available
Published(id) == IF RoomAvailable THEN id ELSE Null

NotifyFrame ==
  /\ NoDispatch
  /\ UNCHANGED <<controlsVars, hedraAssetId, tasks, connVars, resetVars,
                 serverVars, camVars, isModifyMode, overlayVars>>

\* handlePhotoCapture after createAvatar returned and the voice cloning
\* preference was sent: the asset id is read from local storage; with an id
\* avatar_data is published, without one mode_switch is published at once
NotifyReadsAssetId(t) ==
  /\ t \in DOMAIN tasks
  /\ tasks[t].pc = "done"
  /\ notify[t].pc = "waiting"
  /\ notify' =
       [notify EXCEPT ![t] =
          IF hedraAssetId # Null
            THEN [pc |-> "avatar-data", assetId |-> hedraAssetId,
                  avatarData |-> Published(hedraAssetId), modeSwitch |-> Null]
            ELSE [pc |-> "finished", assetId |-> Null, avatarData |-> Null,
                  modeSwitch |-> Published(Undefined)]]
  /\ NotifyFrame

\* handlePhotoCapture: sendAvatarData settled, mode_switch is published
NotifyModeSwitch(t) ==
  /\ notify[t].pc = "avatar-data"
  /\ notify' = [notify EXCEPT ![t].pc = "finished",
                              ![t].modeSwitch = Published(notify[t].assetId)]
  /\ NotifyFrame

NotifySteps ==
  \/ \E t \in DOMAIN tasks : NotifyReadsAssetId(t)
  \/ \E t \in DOMAIN tasks : NotifyModeSwitch(t)

\* ------------------------------------------------- AvatarVisualControls
\* AvatarVisualControls is rendered
AvatarVisualControlsShown ==
  hasUserInteracted /\ roomState # "disconnected" /\ state.assetId # Null

FilterNames == {"Add a funny hat", "Make me Pixar style"}

\* the asset id create-avatar returns to filter run r
FilterAssetId(r) == "f" \o ToString(r)

\* handleFilterSelection invocations that have not returned
FilterRunsInFlight ==
  {r \in DOMAIN filterRuns : filterRuns[r].pc \notin {"done", "aborted"}}

\* handleFiltersToggle, from the Filters toggle
handleFiltersToggle(toggled) ==
  /\ AvatarVisualControlsShown
  /\ toggled # filtersEnabled
  /\ ~(~toggled /\ loadingFilter # Null)
  /\ filtersEnabled' = toggled
  /\ NoDispatch
  /\ UNCHANGED <<avcState, loadingFilter, filterRuns, hedraAssetId, tasks,
                 connVars, resetVars, serverVars, camVars, isModifyMode, notify, overlayVars>>

\* handleFilterSelection up to `await publishData('agent_message', ...)`, from
\* a click on a row of the filters popover
handleFilterSelection(name) ==
  /\ AvatarVisualControlsShown
  /\ filtersEnabled
  /\ Len(filterRuns) < MaxFilterRuns
  /\ filterRuns' = Append(filterRuns,
       [name |-> name, pc |-> "announce", pub |-> PublishCall,
        currentID |-> Null, filterID |-> Null])
  /\ NoDispatch
  /\ UNCHANGED <<avcState, filtersEnabled, loadingFilter, hedraAssetId, tasks,
                 connVars, resetVars, serverVars, camVars, isModifyMode, notify, overlayVars>>

\* the rest of a filter step leaves the page alone
FilterFrame ==
  /\ NoDispatch
  /\ UNCHANGED <<avcState, hedraAssetId, tasks, connVars, resetVars, serverVars, camVars,
                 isModifyMode, notify, overlayVars>>

\* the pending publish of run r settles
FilterPublishSettles(r) ==
  /\ filterRuns[r].pub.pc = "publishing"
  /\ \E call \in {PublishResolved(filterRuns[r].pub),
                  PublishCatch(filterRuns[r].pub)} :
       filterRuns' = [filterRuns EXCEPT ![r].pub = call]
  /\ UNCHANGED <<filtersEnabled, loadingFilter>>
  /\ FilterFrame

\* handleFilterSelection after the agent_message publish: setLoadingFilter,
\* then the get-hedra-asset request is issued for the id in local storage
FilterAnnounced(r) ==
  /\ filterRuns[r].pc = "announce"
  /\ filterRuns[r].pub.pc = "returned"
  /\ loadingFilter' = filterRuns[r].name
  /\ filterRuns' = [filterRuns EXCEPT ![r].pc = "asset",
                                      ![r].currentID = hedraAssetId]
  /\ UNCHANGED filtersEnabled
  /\ FilterFrame

\* handleFilterSelection returns early or rejects: loadingFilter is left as is
FilterAborts(r) ==
  /\ filterRuns[r].pc \in {"asset", "enhance", "create"}
  /\ filterRuns' = [filterRuns EXCEPT ![r].pc = "aborted"]
  /\ UNCHANGED <<filtersEnabled, loadingFilter>>
  /\ FilterFrame

\* the asset url arrived and the image was downloaded: enhance-image is called
FilterAssetFetched(r) ==
  /\ filterRuns[r].pc = "asset"
  /\ filterRuns' = [filterRuns EXCEPT ![r].pc = "enhance"]
  /\ UNCHANGED <<filtersEnabled, loadingFilter>>
  /\ FilterFrame

\* enhance-image answered with success: create-avatar is called
FilterEnhanced(r) ==
  /\ filterRuns[r].pc = "enhance"
  /\ filterRuns' = [filterRuns EXCEPT ![r].pc = "create"]
  /\ UNCHANGED <<filtersEnabled, loadingFilter>>
  /\ FilterFrame

\* create-avatar answered with an asset id: filter_selection is published
\* with that id as filterID
FilterAvatarCreated(r) ==
  /\ filterRuns[r].pc = "create"
  /\ filterRuns' = [filterRuns EXCEPT ![r].pc = "notify", ![r].pub = PublishCall,
                                      ![r].filterID = FilterAssetId(r)]
  /\ UNCHANGED <<filtersEnabled, loadingFilter>>
  /\ FilterFrame

\* the end of handleFilterSelection, after the filter_selection publish or
\* after enhance-image answered without success
FilterFinished(r) ==
  /\ \/ filterRuns[r].pc = "notify" /\ filterRuns[r].pub.pc = "returned"
     \/ filterRuns[r].pc = "enhance"
  /\ filterRuns' = [filterRuns EXCEPT ![r].pc = "done"]
  /\ filtersEnabled' = FALSE
  /\ loadingFilter' = Null
  /\ FilterFrame

FilterSteps ==
  \/ \E r \in DOMAIN filterRuns : FilterPublishSettles(r)
  \/ \E r \in DOMAIN filterRuns : FilterAnnounced(r)
  \/ \E r \in DOMAIN filterRuns : FilterAborts(r)
  \/ \E r \in DOMAIN filterRuns : FilterAssetFetched(r)
  \/ \E r \in DOMAIN filterRuns : FilterEnhanced(r)
  \/ \E r \in DOMAIN filterRuns : FilterAvatarCreated(r)
  \/ \E r \in DOMAIN filterRuns : FilterFinished(r)

\* ------------------------------------------------------- specification
Next ==
  \/ \E t \in DOMAIN tasks : CreateAvatarResponded(t)
  \/ \E t \in DOMAIN tasks : CreateAvatarFailed(t)
  \/ \E t \in DOMAIN tasks : SetAvatarIdResolved(t)
  \/ \E t \in DOMAIN tasks : SetAvatarIdRejected(t)
  \/ NotifySteps
  \/ HandleSkipPhoto
  \/ ShowPhotoCapture
  \/ HandleResetExperience
  \/ ResetDisconnected
  \/ ResetVoiceStateSettled
  \/ ResetPageVoiceSettled
  \/ ResetClearSettled
  \/ ApiRequestSent
  \/ ApiRequestServed
  \/ HandleStartExperience
  \/ AutoStartEffect
  \/ ConnectionDetailsFetched
  \/ ConnectionDetailsFailed
  \/ RoomConnected
  \/ RoomConnectFailed
  \/ RpcMethodsRegistered
  \/ MicrophoneFailed
  \/ MountPhotoCapture
  \/ UnmountPhotoCapture
  \/ StartCamera
  \/ CameraGranted
  \/ CameraDenied
  \/ OrphanCameraSettled
  \/ RpcCapturePhoto
  \/ HandleCapturePhoto
  \/ CapturePhotoPlain
  \/ \E c \in DOMAIN caps : BlobCallback(c)
  \/ retakePhoto
  \/ useOriginalPhoto
  \/ enhancePhoto
  \/ EnhanceSucceeded
  \/ EnhanceFailed
  \/ OrphanEnhanceSettled
  \/ confirmPhoto
  \/ ConfirmBlobCallback
  \/ RevealTimerFires
  \/ RevealVideoEnded
  \/ HideTimerFires
  \/ \E toggled \in BOOLEAN : handleFiltersToggle(toggled)
  \/ \E name \in FilterNames : handleFilterSelection(name)
  \/ FilterSteps

Spec == Init /\ [][Next]_vars

\* the default page: the location hash does not contain "modify"
InitDefault == Init /\ ~isModifyMode

\* the connection succeeds at every step
ConnectSucceeds ==
  \/ HandleStartExperience
  \/ AutoStartEffect
  \/ ConnectionDetailsFetched
  \/ RoomConnected
  \/ RpcMethodsRegistered

CreateAvatarSteps ==
  \/ \E t \in DOMAIN tasks : CreateAvatarResponded(t)
  \/ \E t \in DOMAIN tasks : CreateAvatarFailed(t)
  \/ \E t \in DOMAIN tasks : SetAvatarIdResolved(t)
  \/ \E t \in DOMAIN tasks : SetAvatarIdRejected(t)

\* a reset up to the RESET action
ResetSteps ==
  \/ HandleResetExperience
  \/ ResetDisconnected
  \/ ResetVoiceStateSettled

\* the requests handleResetExperience makes after it started avatarSetup.reset
ResetRequestSteps ==
  \/ ResetPageVoiceSettled
  \/ ResetClearSettled

\* connection and reset alone
NextConn ==
  \/ ConnectSucceeds
  \/ ConnectionDetailsFailed
  \/ RoomConnectFailed
  \/ MicrophoneFailed
  \/ ResetSteps

SpecConn == InitDefault /\ [][NextConn]_vars

\* the page after Start, a successful connection and a granted camera
\* request, before any capture; PhotoCapture is rendered because no avatar
\* exists
InitConnected ==
  /\ state = initialState
  /\ avcState = initialState
  /\ hedraAssetId = Null
  /\ tasks = <<>>
  /\ lastDispatch = <<>>
  /\ hasUserInteracted = TRUE
  /\ isAutoConnecting = TRUE
  /\ roomState = "connected"
  /\ conns = [details |-> 0, connect |-> 0, mic |-> 0]
  /\ rpcRegistered = TRUE
  /\ failedSinceUser = FALSE
  /\ resetsDisconnecting = 0
  /\ resetsPending = 0
  /\ resetsVoice = 0
  /\ resetsClear = 0
  /\ resetDoneAt = -1
  /\ avatarState = NoAvatarState
  /\ served = NoRequest
  /\ inbox = <<>>
  /\ notify = [t \in 1..MaxCaptures |-> NotNotified]
  /\ pcMounted = TRUE
  /\ isModifyMode = FALSE
  /\ cam = [initialCam EXCEPT !.stream = StreamId(1), !.isStreaming = TRUE]
  /\ camPending = 0
  /\ caps = <<>>
  /\ confirmPending = <<>>
  /\ acquired = 1
  /\ liveStreams = {StreamId(1)}
  /\ camOrphans = 0
  /\ liveUrls = {}
  /\ enhPending = 0
  /\ enhOrphans = 0
  /\ enhanced = 0
  /\ showAlexaTransition = FALSE
  /\ showAvatarAppears = FALSE
  /\ revealTimers = 0
  /\ hideTimer = FALSE
  /\ overlayCap = 0
  /\ filtersEnabled = FALSE
  /\ loadingFilter = Null
  /\ filterRuns = <<>>

\* the avatar setup state machine of a connected page whose PhotoCapture
\* stays mounted, fed by the captures of one camera stream, with resets
NextSetup ==
  \/ CapturePhotoPlain
  \/ \E c \in DOMAIN caps : BlobCallback(c)
  \/ CreateAvatarSteps
  \/ HandleSkipPhoto
  \/ ShowPhotoCapture
  \/ ResetSteps
  \/ ResetRequestSteps

SpecSetup == InitConnected /\ [][NextSetup]_vars

\* a session without reset: capture, avatar creation and transition overlay
NextSession ==
  \/ ConnectSucceeds
  \/ MountPhotoCapture
  \/ UnmountPhotoCapture
  \/ StartCamera
  \/ CameraGranted
  \/ CameraDenied
  \/ OrphanCameraSettled
  \/ RpcCapturePhoto
  \/ HandleCapturePhoto
  \/ CapturePhotoPlain
  \/ \E c \in DOMAIN caps : BlobCallback(c)
  \/ CreateAvatarSteps
  \/ HandleSkipPhoto
  \/ ShowPhotoCapture
  \/ RevealTimerFires
  \/ RevealVideoEnded
  \/ HideTimerFires

SpecSession == InitDefault /\ [][NextSession]_vars

\* callbacks, timers and renders happen; requests are answered
FairSession ==
  /\ SpecSession
  /\ WF_vars(MountPhotoCapture)
  /\ WF_vars(UnmountPhotoCapture)
  /\ WF_vars(CameraGranted \/ CameraDenied)
  /\ WF_vars(OrphanCameraSettled)
  /\ WF_vars(\E c \in DOMAIN caps : BlobCallback(c))
  /\ WF_vars(CreateAvatarSteps)
  /\ WF_vars(RevealTimerFires)
  /\ WF_vars(RevealVideoEnded)
  /\ WF_vars(HideTimerFires)

\* the modify page: the location hash contains "modify"
InitModify == Init /\ isModifyMode

\* PhotoCapture of the modify page while it stays mounted: camera, capture,
\* retake, enhancement and confirmation up to the create-avatar request
NextModify ==
  \/ HandleStartExperience
  \/ MountPhotoCapture
  \/ StartCamera
  \/ CameraGranted
  \/ CameraDenied
  \/ CapturePhotoPlain
  \/ \E c \in DOMAIN caps : BlobCallback(c)
  \/ retakePhoto
  \/ useOriginalPhoto
  \/ enhancePhoto
  \/ EnhanceSucceeded
  \/ EnhanceFailed
  \/ confirmPhoto
  \/ ConfirmBlobCallback

SpecModify == InitModify /\ [][NextModify]_vars

\* the modify page when permission prompts, canvas callbacks and the
\* enhance-image request are eventually answered
FairModify ==
  /\ SpecModify
  /\ WF_vars(CameraGranted \/ CameraDenied)
  /\ WF_vars(\E c \in DOMAIN caps : BlobCallback(c))
  /\ WF_vars(EnhanceSucceeded \/ EnhanceFailed)
  /\ WF_vars(ConfirmBlobCallback)

\* captures, avatar creation and the messages handlePhotoCapture publishes
\* afterwards
NextNotify ==
  \/ CapturePhotoPlain
  \/ \E c \in DOMAIN caps : BlobCallback(c)
  \/ CreateAvatarSteps
  \/ NotifySteps
  \/ ShowPhotoCapture

SpecNotify == InitConnected /\ [][NextNotify]_vars

\* the server routes that hold the avatar state, driven by the requests of
\* any API client
NextServer ==
  \/ ApiRequestSent
  \/ ApiRequestServed

SpecServer == InitDefault /\ [][NextServer]_vars

\* the page once the first avatar exists, created from a capture made while
\* the room was connecting; the microphone is being enabled
InitAvatarExists ==
  /\ state = [step |-> "ready", userPhoto |-> Blob(1), assetId |-> AssetId(1),
              error |-> Null]
  /\ avcState = initialState
  /\ hedraAssetId = AssetId(1)
  /\ tasks = <<[pc |-> "done", cap |-> 1, result |-> "created"]>>
  /\ lastDispatch = <<>>
  /\ hasUserInteracted = TRUE
  /\ isAutoConnecting = TRUE
  /\ roomState = "connected"
  /\ conns = [details |-> 0, connect |-> 0, mic |-> 1]
  /\ rpcRegistered = FALSE
  /\ failedSinceUser = FALSE
  /\ resetsDisconnecting = 0
  /\ resetsPending = 0
  /\ resetsVoice = 0
  /\ resetsClear = 0
  /\ resetDoneAt = -1
  /\ avatarState = [assetId |-> AssetId(1), switchVoice |-> "true"]
  /\ served = [req |-> Request("set-avatar-id", AssetId(1), "true", TRUE),
               status |-> 200, body |-> NoAvatarState]
  /\ inbox = <<>>
  /\ notify = [t \in 1..MaxCaptures |-> NotNotified]
  /\ pcMounted = FALSE
  /\ isModifyMode = FALSE
  /\ cam = initialCam
  /\ camPending = 0
  /\ caps = <<[status |-> "emitted", during |-> 0, stream |-> StreamId(1)]>>
  /\ confirmPending = <<>>
  /\ acquired = 1
  /\ liveStreams = {}
  /\ camOrphans = 0
  /\ liveUrls = {}
  /\ enhPending = 0
  /\ enhOrphans = 0
  /\ enhanced = 0
  /\ showAlexaTransition = FALSE
  /\ showAvatarAppears = FALSE
  /\ revealTimers = 0
  /\ hideTimer = FALSE
  /\ overlayCap = 0
  /\ filtersEnabled = FALSE
  /\ loadingFilter = Null
  /\ filterRuns = <<>>

\* the avatar controls of a page whose avatar exists
NextFilter ==
  \/ RpcMethodsRegistered
  \/ \E toggled \in BOOLEAN : handleFiltersToggle(toggled)
  \/ \E name \in FilterNames : handleFilterSelection(name)
  \/ FilterSteps

SpecFilter == InitAvatarExists /\ [][NextFilter]_vars

\* the avatar controls when every pending publish and request of a filter
\* selection is eventually answered
FairFilter == SpecFilter /\ WF_vars(FilterSteps)

\* ---------------------------------------------------------------- claims
LastType == IF lastDispatch = <<>> THEN Null ELSE lastDispatch[Len(lastDispatch)].type
LastPayload == lastDispatch[Len(lastDispatch)].payload

\* C1: right after AVATAR_CREATED(id) is dispatched, step is ready, error is
\* null and assetId is the non-null id that was passed
C1_AvatarCreatedReady ==
  LastType = "AVATAR_CREATED" =>
    /\ state.step = "ready"
    /\ state.error = Null
    /\ state.assetId = LastPayload
    /\ state.assetId # Null

C1_Witness ==
  /\ LastType = "AVATAR_CREATED"
  /\ state.userPhoto # Null
  /\ \E t \in DOMAIN tasks : tasks[t].result = "failed"

\* C2: AVATAR_CREATION_FAILED(msg) leaves step = ready and error = msg, and
\* keeps assetId and userPhoto as they were before the action
C2_CreationFailedReady ==
  [][LastType' = "AVATAR_CREATION_FAILED" =>
       /\ state'.step = "ready"
       /\ state'.error = LastPayload'
       /\ state'.assetId = state.assetId
       /\ state'.userPhoto = state.userPhoto]_vars

C2_Witness ==
  /\ LastType = "AVATAR_CREATION_FAILED"
  /\ state.assetId # Null
  /\ state.userPhoto # Null

\* C3: right after RESET the state is the initial state and local storage
\* holds no hedraAssetId
C3_ResetInitial ==
  LastType = "RESET" => state = initialState /\ hedraAssetId = Null

C3_Witness ==
  /\ LastType = "RESET"
  /\ \E t \in DOMAIN tasks : tasks[t].result = "created"

\* C4 as claimed: step changes only along the enumerated edges
EnumeratedEdge(from, type, to) ==
  \/ from \in {"ready", "skipped"} /\ type = "PHOTO_CAPTURED" /\ to = "creating-avatar"
  \/ from = "creating-avatar" /\ type \in {"AVATAR_CREATED", "AVATAR_CREATION_FAILED"}
       /\ to = "ready"
  \/ from = "ready" /\ type = "SHOW_PHOTO_CAPTURE" /\ to = "photo-capture"
  \/ type = "RESET" /\ to = "ready"

C4_Original ==
  [][state'.step # state.step =>
       /\ lastDispatch' # <<>>
       /\ EnumeratedEdge(state.step, lastDispatch'[1].type, state'.step)]_vars

StepAfter(type) ==
  CASE type \in {"PHOTO_CAPTURED", "AVATAR_CREATION_STARTED"} -> "creating-avatar"
    [] type \in {"AVATAR_CREATED", "AVATAR_CREATION_FAILED", "RESET"} -> "ready"
    [] type = "PHOTO_SKIPPED" -> "skipped"
    [] type = "SHOW_PHOTO_CAPTURE" -> "photo-capture"

\* C4 as amended: step changes only when an action is dispatched, and then it
\* becomes the step of that action whatever the step before (creating-avatar
\* for PHOTO_CAPTURED and AVATAR_CREATION_STARTED, ready for AVATAR_CREATED,
\* AVATAR_CREATION_FAILED and RESET, skipped for PHOTO_SKIPPED, photo-capture
\* for SHOW_PHOTO_CAPTURE)
C4_StepFollowsAction ==
  [][state'.step = IF lastDispatch' = <<>> THEN state.step
                   ELSE StepAfter(LastType')]_vars

C4_Witness ==
  /\ state.step = "skipped"
  /\ state.assetId # Null

\* C5: once assetId is non-null, only RESET makes it null again
C5_AssetIdForward ==
  [][state.assetId # Null /\ state'.assetId = Null => LastType' = "RESET"]_vars

C5_Witness ==
  /\ state.assetId # Null
  /\ \E t \in DOMAIN tasks : tasks[t].result = "created" /\ tasks[t].pc = "done"
  /\ \E t \in DOMAIN tasks : tasks[t].result = "failed" /\ t > 1

\* C6: every component that reads the avatar setup state observes Page's
\* step, userPhoto, assetId and error
C6_Original == AvatarVisualControlsShown => avcState = state

\* C7: of two capturePhoto calls, the second made while the first's blob
\* callback was pending, at most one emits a photo
C7_Original ==
  \A c \in DOMAIN caps :
    caps[c].during # 0 =>
      ~(caps[c].status = "emitted" /\ caps[caps[c].during].status = "emitted")

\* C8: after a failed connection attempt no attempt starts before a user
\* action
C8_Original ==
  [][conns'.details > conns.details => ~failedSinceUser]_vars

\* the creation started by the capture that opened the overlay
OverlayTaskIs(r) ==
  /\ overlayCap # 0
  /\ \E t \in DOMAIN tasks : tasks[t].cap = overlayCap /\ tasks[t].result = r

\* C9: an overlay whose capture's avatar creation failed is eventually hidden
C9_Original ==
  (showAlexaTransition /\ OverlayTaskIs("failed")) ~> ~showAlexaTransition

\* no capturePhoto call was made while another call's blob callback was pending
NoRapidCapture == \A c \in DOMAIN caps : caps[c].during = 0

\* the capture that opened the overlay emitted its photo: its creation exists
OverlayTaskExists ==
  \E t \in DOMAIN tasks : tasks[t].cap = overlayCap

\* C10: the reveal phase of an overlay opened by a capture begins only after
\* that capture's avatar creation delivered its asset id (stated for the runs
\* without rapid captures, so that a violation does not rest on C7)
C10_Original ==
  (NoRapidCapture /\ OverlayTaskExists /\ showAlexaTransition /\ showAvatarAppears) =>
    OverlayTaskIs("created")

\* C11: at most one enhance -> create-avatar -> notify pipeline of
\* handleFilterSelection runs at a time
C11_Original == Cardinality(FilterRunsInFlight) <= 1

\* C12: the camera is held exclusively: getUserMedia never hands out a new
\* stream while a stream acquired earlier still has tracks that are not stopped
C12_Original == [][acquired' > acquired => liveStreams = {}]_vars

\* C13: once PhotoCapture is removed and the camera requests and toBlob
\* callbacks it left behind have settled, every stream it acquired is stopped
\* and every object URL it created is revoked
C13_Original ==
  (/\ ~pcMounted
   /\ camOrphans = 0
   /\ \A c \in DOMAIN caps : caps[c].status # "orphan")
    => liveStreams = {} /\ liveUrls = {}

\* C14: when the set-avatar-id request of a createAvatar call fails, the step
\* that handles the failure leaves the hedraAssetId entry of local storage
\* as it is
C14_NoRollback ==
  [][\A t \in DOMAIN tasks :
       (tasks[t].pc = "setid" /\ tasks'[t].result = "failed")
         => hedraAssetId' = hedraAssetId]_vars

\* a createAvatar call failed at set-avatar-id and the id it stored is still
\* in local storage
C14_Witness ==
  \E t \in DOMAIN tasks :
    /\ tasks[t].result = "failed"
    /\ hedraAssetId = AssetId(t)

\* C15: a capturePhoto invocation (capturePhoto RPC, Take Photo button) made
\* while PhotoCapture is not streaming emits no photo and changes neither the
\* capture state nor the page state
C15_Original ==
  [][(/\ pcMounted
      /\ ~cam.isStreaming
      /\ RpcCapturePhoto \/ HandleCapturePhoto)
       => UNCHANGED <<cam, caps, tasks, state, showAlexaTransition>>]_vars

\* C16: over capture and retake cycles of a mounted PhotoCapture no object
\* URL is left behind: the URLs created and not yet revoked are held in
\* capturedPhoto or enhancedPhoto, and of the captured stills at most the one
\* held in capturedPhoto is not revoked
C16_RetakeRevokes ==
  pcMounted =>
    /\ liveUrls \subseteq {cam.capturedPhoto, cam.enhancedPhoto}
    /\ Cardinality(liveUrls \ {cam.enhancedPhoto}) <= 1

\* the second still, captured after a retake, is shown and the URL of the
\* first is revoked
C16_Witness ==
  /\ pcMounted
  /\ Len(caps) >= 2
  /\ caps[1].status = "dropped" /\ caps[2].status = "dropped"
  /\ caps[2].during = 0
  /\ caps[2].stream # caps[1].stream
  /\ cam.capturedPhoto = Blob(2)
  /\ liveUrls = {Blob(2)}

\* an enhance-image request of the mounted PhotoCapture fails in this step
EnhanceRequestFailed ==
  /\ pcMounted /\ pcMounted'
  /\ enhPending' < enhPending
  /\ enhanced' = enhanced

CameraRequestRejected ==
  /\ pcMounted /\ pcMounted'
  /\ camPending' < camPending
  /\ acquired' = acquired

\* C18: when getUserMedia is rejected, startCamera ends normally: the camera
\* state is left as it was, so a PhotoCapture that was not streaming stays
\* with isStreaming = false and stream = null, and error holds the message
\* about camera permissions
C18_DeniedSetsError ==
  [][CameraRequestRejected =>
       /\ cam'.error = CameraError
       /\ cam'.isStreaming = cam.isStreaming /\ cam'.stream = cam.stream
       /\ ~cam.isStreaming => (~cam'.isStreaming /\ cam'.stream = Null)]_vars

\* a request was rejected while PhotoCapture was not streaming
C18_Witness ==
  /\ pcMounted
  /\ cam.error = CameraError
  /\ ~cam.isStreaming /\ cam.stream = Null
  /\ acquired = 0 /\ camPending = 0

\* C20: publishData never throws to its caller, makes at most one publish
\* attempt per call, and returns false when the room is unavailable or the
\* publish fails
C20_PublishNeverThrows ==
  \A r \in DOMAIN filterRuns :
    /\ filterRuns[r].pub.pc # "thrown"
    /\ filterRuns[r].pub.attempts <= 1
    /\ filterRuns[r].pub.outcome \in {"noroom", "rejected"} =>
         filterRuns[r].pub.pc = "returned" /\ filterRuns[r].pub.ret = "false"
    /\ filterRuns[r].pub.outcome = "noroom" => filterRuns[r].pub.attempts = 0

C20_Witness ==
  /\ \E r \in DOMAIN filterRuns : filterRuns[r].pub.outcome = "noroom"
  /\ \E r \in DOMAIN filterRuns :
       filterRuns[r].pub.outcome = "rejected" /\ filterRuns[r].pc = "done"


\* a reset has completed and no photo has been captured since
AfterReset == resetDoneAt = Len(tasks) /\ ResetsInFlight = 0

\* C21: after a reset has completed (and until the next photo is captured),
\* the server-side avatar state is empty, so GET /api/avatar-state answers
\* null, whatever the outcome of the reset's requests
C21_Original == AfterReset => avatarState = NoAvatarState

\* C24: a reset is sticky: after a reset has completed and until the next
\* photo is captured, state.assetId is null and local storage holds no
\* hedraAssetId, also when an avatar creation started before the reset
\* finishes afterwards
C24_Original == AfterReset => state.assetId = Null /\ hedraAssetId = Null

\* no reset was ever started
NoReset == resetDoneAt = -1 /\ ResetsInFlight = 0

\* C25: whenever no createAvatar call is in flight (and no reset interfered),
\* a non-null state.assetId equals the hedraAssetId entry of local storage,
\* in whatever order the requests of overlapping handlePhotoCapture calls
\* complete
C25_Original ==
  (/\ NoReset
   /\ \A t \in DOMAIN tasks : tasks[t].pc = "done"
   /\ state.assetId # Null)
    => state.assetId = hedraAssetId

\* C26: avatar_data and mode_switch of a handlePhotoCapture call are published
\* only if the call's avatar creation succeeded, and they carry the asset id
\* that call created
C26_Original ==
  \A t \in DOMAIN tasks :
    \A id \in {notify[t].avatarData, notify[t].modeSwitch} \ {Null} :
      tasks[t].result = "created" /\ id = AssetId(t)

\* the register changes, or a request is answered, in this step
\* C28: after retakePhoto and until a new photo is captured (no captured photo
\* is held), the result of an enhancement issued for the discarded still is not
\* applied: enhancedPhoto stays null and currentStep stays capture
C28_Original ==
  (pcMounted /\ cam.capturedPhoto = Null) =>
    cam.enhancedPhoto = Null /\ cam.currentStep = "capture"

\* C23: every enhancePhoto invocation that starts eventually finishes with
\* isEnhancing = false and currentStep = confirm, when pending requests and
\* canvas callbacks are eventually delivered
C23_Original ==
  cam.isEnhancing ~> (~cam.isEnhancing /\ cam.currentStep = "confirm")

\* C27: every filter selection that set loadingFilter eventually clears it
\* back to null, whatever the outcome of its requests
C27_Original == (loadingFilter # Null) ~> (loadingFilter = Null)

\* filter run r created a new avatar and published filter_selection with its id
FilterPublished(r) ==
  /\ filterRuns[r].filterID # Null
  /\ filterRuns[r].pub.outcome = "ok"

\* C29: after a filter pipeline succeeded and published filter_selection with
\* the newly created asset id, hedraAssetId is that id (no other pipeline
\* having created an avatar)
C29_Original ==
  \A r \in DOMAIN filterRuns :
    (FilterPublished(r) /\ \A q \in DOMAIN filterRuns \ {r} : filterRuns[q].filterID = Null)
      => hedraAssetId = filterRuns[r].filterID

\* C30: the isCameraActive RPC answers "true" exactly when the camera is
\* streaming, and "false" in every other state
C30_Original ==
  (rpcRegistered /\ roomState = "connected") =>
    (isCameraActive = "true" <=> (pcMounted /\ cam.isStreaming))

ServerStep == served' # served \/ avatarState' # avatarState

\* C22: the server-side avatar state is a single register: a set-avatar-id
\* request with an assetId stores that assetId and its switchVoice (false when
\* absent) and is answered 200; one without an assetId is answered 400 and
\* leaves the register as it is; clear-avatar-state and reset-voice-state
\* empty it; GET /api/avatar-state answers the register's value (null when
\* empty) and leaves it as it is; nothing else changes the register
C22_SingleRegister ==
  [][ServerStep =>
       LET q == served'.req IN
         /\ q.op \in {"set-avatar-id", "avatar-state", "clear-avatar-state",
                      "reset-voice-state"}
         /\ (q.op = "set-avatar-id" /\ q.json /\ q.assetId \notin {Null, ""})
              => /\ served'.status = 200
                 /\ avatarState'.assetId = q.assetId
                 /\ avatarState'.switchVoice =
                      (IF q.switchVoice = "true" THEN "true" ELSE "false")
         /\ (q.op = "set-avatar-id" /\ q.json /\ q.assetId \in {Null, ""})
              => served'.status = 400 /\ avatarState' = avatarState
         /\ (q.op = "set-avatar-id" /\ ~q.json) => avatarState' = avatarState
         /\ q.op \in {"clear-avatar-state", "reset-voice-state"}
              => avatarState' = NoAvatarState
         /\ q.op = "avatar-state"
              => served'.body = avatarState /\ avatarState' = avatarState
    ]_vars

\* a set-avatar-id request without assetId was answered 400 while the
\* register held the value of an earlier request, and the value is still there
C22_Witness ==
  /\ served.req.op = "set-avatar-id"
  /\ served.status = 400
  /\ avatarState.assetId = AssetId(2)
  /\ avatarState.switchVoice = "false"

TypeOK ==
  /\ state.step \in Steps
  /\ hedraAssetId \in AssetIds \cup {Null}
  /\ roomState \in {"disconnected", "connecting", "connected"}

====
